---- MODULE Spec2Model ----
(***************************************************************************)
(* Backlink graph synchronization of second-brain.                         *)
(*                                                                         *)
(* The edge function (supabase/functions/parse-backlinks, first file of    *)
(* src/unnamed/part_000) receives {note_id, content, user_id}, extracts    *)
(* the [[label]] references of the content, deletes the rows of the        *)
(* "links" table whose source is note_id, fetches the (id, slug) rows of   *)
(* the user's notes and inserts one row per label that resolves to a note  *)
(* other than note_id.  Every await on the store is a step of its own;     *)
(* the code between two awaits runs without interleaving.                  *)
(*                                                                         *)
(* Text is modelled as a tuple of one-character strings.  The "links"      *)
(* table is a bag of <<source_note_id, target_note_id>> rows: the code     *)
(* inserts rows and nothing in the repository declares a uniqueness        *)
(* constraint on them.                                                     *)
(***************************************************************************)
EXTENDS Integers, Sequences, FiniteSets, Bags, TLC

VARIABLES
    links,          \* the "links" table: a bag of <<source, target>> rows
    notes_tbl,      \* the "notes" table: a set of [id, slug, user_id] rows
    pc,             \* per request slot: position of the handler
    req,            \* per request slot: the request being served
    backlinks,      \* per request slot: the extracted labels (line 104)
    idx,            \* per request slot: position of the for loop (line 150)
    notes,          \* per request slot: the fetched directory (line 129)
    insertedLinks,  \* per request slot: the list built at line 149/168
    resp,           \* per request slot: the response returned
    pre,            \* history: the links table when the request arrived
    targets,        \* history: the id of targetNote at each iteration
    attempts,       \* history: the inserts issued, with their outcome
    failed,         \* history: the store operations that failed
    lastCall,       \* history: the previous completed request
    editor,         \* NoteEditor: the save or delete in progress
    dashboard,      \* Dashboard: fetchData and its top linked notes
    graph,          \* GraphView: fetchGraph and its graph data
    garden          \* Garden: fetchNote and its linked notes list

\* the state of the pages of the application
uiVars == <<editor, dashboard, graph, garden>>

vars == <<links, notes_tbl, pc, req, backlinks, idx, notes, insertedLinks,
          resp, pre, targets, attempts, failed, lastCall, uiVars>>

(***************************************************************************)
(* Bounds of the model.                                                    *)
(***************************************************************************)
\* the largest number of times one reference is repeated in a content
MaxRepeat == 2

Procs == {1, 2}

\* JavaScript's undefined, as an id and as a text
UNDEFINED == "undefined"
UNDEFINED_TEXT == <<"undefined">>

Min(S) == CHOOSE x \in S : \A y \in S : x <= y

(***************************************************************************)
(* Reference extraction: /\[\[([^\]]+)\]\]/g, then trim.                   *)
(***************************************************************************)
\* index of the first "]" at or after j, 0 when there is none
FirstClose(s, j) ==
    LET ks == {k \in j..Len(s) : s[k] = "]"}
    IN  IF ks = {} THEN 0 ELSE Min(ks)

\* the regular expression matches at position i
MatchAt(s, i) ==
    /\ i + 1 <= Len(s)
    /\ s[i] = "["
    /\ s[i + 1] = "["
    /\ LET j == FirstClose(s, i + 2)
       IN  /\ j > i + 2
           /\ j + 1 <= Len(s)
           /\ s[j + 1] = "]"

RECURSIVE matchAllFrom(_, _)
matchAllFrom(s, i) ==
    IF i > Len(s) THEN <<>>
    ELSE IF MatchAt(s, i)
         THEN LET j == FirstClose(s, i + 2)
              IN  <<SubSeq(s, i + 2, j - 1)>> \o matchAllFrom(s, j + 2)
         ELSE matchAllFrom(s, i + 1)

\* content.matchAll(backlinkRegex), capture group 1 of each match
matchAll(s) == matchAllFrom(s, 1)

RECURSIVE trimStart(_)
trimStart(s) ==
    IF s # <<>> /\ Head(s) = " " THEN trimStart(Tail(s)) ELSE s

RECURSIVE trimEnd(_)
trimEnd(s) ==
    IF s # <<>> /\ s[Len(s)] = " "
    THEN trimEnd(SubSeq(s, 1, Len(s) - 1)) ELSE s

trim(s) == trimEnd(trimStart(s))

\* lines 103-106
ExtractBacklinks(content) ==
    LET ms == matchAll(content)
    IN  [k \in 1..Len(ms) |-> trim(ms[k])]

(***************************************************************************)
(* Slug resolution: the predicate of notes.find at lines 152-157.          *)
(***************************************************************************)
\* slug.replace(/-$/, ""): one hyphen at the end of the text is removed
replaceTrailingDash(slug) ==
    IF slug # <<>> /\ slug[Len(slug)] = "-"
    THEN SubSeq(slug, 1, Len(slug) - 1) ELSE slug

\* the predicate with the two hyphen rules left out
SlugMatches_exact(noteSlug, slug) == noteSlug = slug

\* lines 154-156
SlugMatches(noteSlug, slug) ==
    \/ noteSlug = slug
    \/ noteSlug = slug \o <<"-">>
    \/ noteSlug = replaceTrailingDash(slug)

\* the value of find when no element satisfies the predicate
NoNote == [id |-> UNDEFINED, slug |-> UNDEFINED_TEXT]

\* Array.prototype.find: the first element, in array order, that matches
find(ns, slug) ==
    LET hits == {k \in 1..Len(ns) : SlugMatches(ns[k].slug, slug)}
    IN  IF hits = {} THEN NoNote ELSE ns[Min(hits)]

\* the check without the comparison with note_id
IsValidTarget_self(targetNote, note_id) == targetNote # NoNote

\* line 158: targetNote && targetNote.id !== note_id
IsValidTarget(targetNote, note_id) ==
    targetNote # NoNote /\ targetNote.id # note_id

(***************************************************************************)
(* The tables.                                                             *)
(***************************************************************************)
\* a delete that removes nothing
DeleteLinks_none(l, note_id) == l

\* .delete().eq("source_note_id", note_id), lines 110-113
DeleteLinks(l, note_id) ==
    LET keep == {e \in DOMAIN l : e[1] # note_id}
    IN  [e \in keep |-> l[e]]

\* an insert with the two columns exchanged
InsertLinkRow_swapped(l, source, target) ==
    l (+) SetToBag({<<target, source>>})

\* .insert([{source_note_id, target_note_id}]), lines 162-164
InsertLinkRow(l, source, target) == l (+) SetToBag({<<source, target>>})

\* the rows of the links table whose source is note_id
OutBag(l, note_id) ==
    LET mine == {e \in DOMAIN l : e[1] = note_id}
    IN  [e \in mine |-> l[e]]

\* the targets of the edges stored for note_id
OutTargets(l, note_id) == {e[2] : e \in {x \in DOMAIN l : x[1] = note_id}}

\* .select("id, slug").eq("user_id", user_id), lines 129-132: the rows in
\* any order, the query has no order clause
SelectNotes(tbl, user_id) ==
    LET rows == {[id |-> n.id, slug |-> n.slug] :
                    n \in {m \in tbl : m.user_id = user_id}}
        k == Cardinality(rows)
    IN  {s \in [1..k -> rows] : \A i, j \in 1..k : s[i] = s[j] => i = j}

(***************************************************************************)
(* Inputs.                                                                 *)
(***************************************************************************)
Ref(label) == <<"[", "[">> \o label \o <<"]", "]">>

RECURSIVE Repeat(_, _)
Repeat(s, k) == IF k = 0 THEN <<>> ELSE s \o Repeat(s, k - 1)

\* a row of the notes table
Note(id, slug, user_id, content) ==
    [id |-> id, slug |-> slug, user_id |-> user_id, content |-> content,
     is_public |-> TRUE]

NoteTable ==
    { Note("n1", <<"a", "-">>, "u1", <<"x">>),
      Note("n2", <<"b">>, "u1", <<"x">>),
      Note("n3", <<"c">>, "u1", <<"x">>),
      Note("n4", <<"d">>, "u2", <<"x">>) }

Contents ==
    { <<>>,
      <<"x">>,
      Ref(<<"b", "-">>) \o Ref(<<"c">>),
      Ref(<<" ", "a", " ">>) \o <<" ">> \o Ref(<<"d">>)
          \o Ref(<<"b", "-">>) }
    \cup {Repeat(Ref(<<"b">>), k) : k \in 1..MaxRepeat}
    \cup {Repeat(Ref(<<"a">>), k) : k \in 1..MaxRepeat}

Payload(kind, note_id, content, user_id) ==
    [kind |-> kind, note_id |-> note_id, content |-> content,
     user_id |-> user_id]

NoPayload(kind) == Payload(kind, UNDEFINED, UNDEFINED_TEXT, UNDEFINED)

Request(method, hasBody, json, body) ==
    [method |-> method, hasBody |-> hasBody, json |-> json, body |-> body]

\* well-formed POST requests carrying a JSON object
ObjectRequests ==
    { Request("POST", TRUE, TRUE, Payload("object", n, c, u)) :
        n \in {"n1", "n2", UNDEFINED, ""},
        c \in Contents \cup {UNDEFINED_TEXT},
        u \in {"u1", UNDEFINED} }
    \cup { Request("POST", TRUE, TRUE,
                   Payload("object", "n9", Ref(<<"b">>), "u1")) }

\* requests rejected before the payload is read, and bodies that are not
\* JSON objects
OtherRequests ==
    { Request("OPTIONS", FALSE, FALSE, NoPayload("empty")),
      Request("GET", FALSE, FALSE, NoPayload("empty")),
      Request("POST", FALSE, TRUE, NoPayload("empty")),
      Request("POST", TRUE, FALSE,
              Payload("object", "n1", Ref(<<"b">>), "u1")),
      Request("POST", TRUE, TRUE, NoPayload("empty")),
      Request("POST", TRUE, TRUE, NoPayload("badjson")),
      Request("POST", TRUE, TRUE, NoPayload("null")),
      Request("POST", TRUE, TRUE, NoPayload("nonobject")) }

Requests == ObjectRequests \cup OtherRequests

NoRequest == Request("", FALSE, FALSE, NoPayload(""))

(***************************************************************************)
(* Responses.                                                              *)
(***************************************************************************)
Response(status, error, inserted) ==
    [status |-> status, error |-> error, insertedLinks |-> inserted]

NoResponse == Response(0, "", <<>>)

\* a value is falsy: undefined or the empty string
Falsy(v) == v = UNDEFINED \/ v = ""
FalsyText(t) == t = UNDEFINED_TEXT \/ t = <<>>

\* the check without the test of content
MissingFields_nocontent(b) == Falsy(b.note_id) \/ Falsy(b.user_id)

\* line 86
MissingFields(b) ==
    Falsy(b.note_id) \/ FalsyText(b.content) \/ Falsy(b.user_id)

\* lines 22-95 and 190-199: the response that ends the request before any
\* store access, NoResponse when the request passes every check
Validate(r) ==
    IF r.method = "OPTIONS" THEN Response(204, "", <<>>)
    ELSE IF r.method # "POST"
    THEN Response(405, "Only POST requests are supported", <<>>)
    ELSE IF ~r.hasBody
    THEN Response(400, "Request body is empty or missing", <<>>)
    ELSE IF ~r.json
    THEN Response(400, "Content-Type must be application/json", <<>>)
    ELSE IF r.body.kind = "empty"
    THEN Response(400, "Empty request body", <<>>)
    ELSE IF r.body.kind = "badjson"
    THEN Response(400, "Invalid JSON payload", <<>>)
    ELSE IF r.body.kind = "null"
    THEN Response(500, "Internal server error", <<>>)
    ELSE IF MissingFields(r.body)
    THEN Response(400, "Missing note_id, content, or user_id", <<>>)
    ELSE NoResponse

\* the deleteError branch without its return
AfterDelete_noreturn(l, note_id, deleteError) ==
    [links |-> IF deleteError THEN l ELSE DeleteLinks(l, note_id),
     pc |-> "fetch", resp |-> NoResponse]

\* lines 114-126: the delete returned deleteError, or it did not
AfterDelete(l, note_id, deleteError) ==
    IF deleteError
    THEN [links |-> l, pc |-> "done",
          resp |-> Response(500, "Failed to clear existing links", <<>>)]
    ELSE [links |-> DeleteLinks(l, note_id), pc |-> "fetch",
          resp |-> NoResponse]

\* lines 133-145: the select returned notesError, or it returned ns
AfterFetch(ns, notesError) ==
    IF notesError
    THEN [notes |-> <<>>, pc |-> "done",
          resp |-> Response(500, "Failed to fetch notes", <<>>)]
    ELSE [notes |-> ns, pc |-> "insert", resp |-> NoResponse]

\* lines 165-173: the list of inserted links after one insert
AfterInsert(inserted, row, insertError) ==
    IF insertError THEN inserted ELSE Append(inserted, row)

\* a loop that stops at the first insert error
LoopNext_break(i, n, insertError) == IF insertError THEN n + 1 ELSE i + 1

\* line 150: the for loop goes on to the next label whatever the outcome
LoopNext(i, n, insertError) == i + 1

\* lines 180-189
SuccessResponse(inserted) == Response(200, "", inserted)

(***************************************************************************)
(* The handler, one action per stretch of code between two awaits.         *)
(***************************************************************************)
\* the pages before any of them has been opened
NoEditor ==
    [pc |-> "idle", op |-> "", noteId |-> UNDEFINED, userId |-> UNDEFINED,
     slug |-> UNDEFINED_TEXT, content |-> UNDEFINED_TEXT,
     dataId |-> UNDEFINED, toasts |-> {}, removed |-> EmptyBag,
     syncStatus |-> 0, syncFailed |-> {}]
NoDashboard ==
    [pc |-> "idle", userId |-> UNDEFINED, backlinkCounts |-> EmptyBag,
     sortedNoteIds |-> <<>>, topLinkedNotes |-> <<>>, error |-> "",
     topNotesError |-> FALSE]
\* during is history: the invocations of the edge function that stood
\* between their delete and their first insert when the links were read
NoGraph ==
    [pc |-> "idle", userId |-> UNDEFINED, notes |-> {}, nodes |-> {},
     links |-> EmptyBag, error |-> "", during |-> {}]
NoGarden ==
    [pc |-> "idle", user_id |-> UNDEFINED, slug |-> UNDEFINED_TEXT,
     note |-> UNDEFINED, backlinks |-> <<>>, error |-> ""]

NoCall ==
    [note_id |-> UNDEFINED, content |-> UNDEFINED_TEXT, notes |-> <<>>,
     out |-> EmptyBag]

\* no request in flight, no page opened, over the given tables
InitState(l, tbl) ==
    /\ links = l
    /\ notes_tbl = tbl
    /\ pc = [p \in Procs |-> "idle"]
    /\ req = [p \in Procs |-> NoRequest]
    /\ backlinks = [p \in Procs |-> <<>>]
    /\ idx = [p \in Procs |-> 1]
    /\ notes = [p \in Procs |-> <<>>]
    /\ insertedLinks = [p \in Procs |-> <<>>]
    /\ resp = [p \in Procs |-> NoResponse]
    /\ pre = [p \in Procs |-> EmptyBag]
    /\ targets = [p \in Procs |-> <<>>]
    /\ attempts = [p \in Procs |-> <<>>]
    /\ failed = [p \in Procs |-> {}]
    /\ lastCall = NoCall
    /\ editor = NoEditor
    /\ dashboard = NoDashboard
    /\ graph = NoGraph
    /\ garden = NoGarden

Init == InitState(EmptyBag, NoteTable)

\* lines 21-107: request r arrives, is checked, and its labels extracted
HandleRequest(p, r) ==
    /\ pc[p] = "idle"
    /\ LET v == Validate(r)
       IN  /\ req' = [req EXCEPT ![p] = r]
           /\ pre' = [pre EXCEPT ![p] = links]
           /\ IF v # NoResponse
              THEN /\ pc' = [pc EXCEPT ![p] = "done"]
                   /\ resp' = [resp EXCEPT ![p] = v]
                   /\ UNCHANGED backlinks
              ELSE /\ pc' = [pc EXCEPT ![p] = "delete"]
                   /\ backlinks' = [backlinks EXCEPT
                                      ![p] = ExtractBacklinks(r.body.content)]
                   /\ UNCHANGED resp
    /\ UNCHANGED <<links, notes_tbl, idx, notes, insertedLinks, targets,
                   attempts, failed, lastCall>>

\* a request sent to the function by any client
Handle(p) ==
    /\ \E r \in Requests : HandleRequest(p, r)
    /\ UNCHANGED uiVars

\* lines 109-126: clear the existing links of the note
Delete(p) ==
    /\ pc[p] = "delete"
    /\ \E deleteError \in BOOLEAN :
        LET o == AfterDelete(links, req[p].body.note_id, deleteError)
        IN  /\ links' = o.links
            /\ pc' = [pc EXCEPT ![p] = o.pc]
            /\ resp' = [resp EXCEPT ![p] = o.resp]
            /\ failed' = [failed EXCEPT ![p] =
                            IF deleteError THEN @ \cup {"delete"} ELSE @]
    /\ UNCHANGED <<notes_tbl, req, backlinks, idx, notes, insertedLinks,
                   pre, targets, attempts, lastCall, uiVars>>

\* lines 128-149: fetch the notes of the user
Fetch(p) ==
    /\ pc[p] = "fetch"
    /\ \E notesError \in BOOLEAN :
       \E ns \in SelectNotes(notes_tbl, req[p].body.user_id) :
        LET o == AfterFetch(ns, notesError)
        IN  /\ notes' = [notes EXCEPT ![p] = o.notes]
            /\ pc' = [pc EXCEPT ![p] = o.pc]
            /\ resp' = [resp EXCEPT ![p] = o.resp]
            /\ failed' = [failed EXCEPT ![p] =
                            IF notesError THEN @ \cup {"fetch"} ELSE @]
    /\ idx' = [idx EXCEPT ![p] = 1]
    /\ insertedLinks' = [insertedLinks EXCEPT ![p] = <<>>]
    /\ UNCHANGED <<links, notes_tbl, req, backlinks, pre, targets,
                   attempts, lastCall, uiVars>>

\* lines 150-177: one iteration of the loop over the labels
InsertLink(p) ==
    /\ pc[p] = "insert"
    /\ idx[p] <= Len(backlinks[p])
    /\ LET slug == backlinks[p][idx[p]]
           note_id == req[p].body.note_id
           targetNote == find(notes[p], slug)
           row == [source_note_id |-> note_id,
                   target_note_id |-> targetNote.id, slug |-> slug]
       IN  IF IsValidTarget(targetNote, note_id)
           THEN \E insertError \in BOOLEAN :
                 /\ links' = IF insertError THEN links
                             ELSE InsertLinkRow(links, note_id, targetNote.id)
                 /\ insertedLinks' = [insertedLinks EXCEPT ![p] =
                                        AfterInsert(@, row, insertError)]
                 /\ attempts' = [attempts EXCEPT ![p] =
                        Append(@, [row |-> row, ok |-> ~insertError])]
                 /\ failed' = [failed EXCEPT ![p] =
                        IF insertError THEN @ \cup {"insert"} ELSE @]
                 /\ idx' = [idx EXCEPT ![p] =
                        LoopNext(@, Len(backlinks[p]), insertError)]
           ELSE /\ idx' = [idx EXCEPT ![p] =
                        LoopNext(@, Len(backlinks[p]), FALSE)]
                /\ UNCHANGED <<links, insertedLinks, attempts, failed>>
    /\ targets' = [targets EXCEPT ![p] =
            Append(@, find(notes[p], backlinks[p][idx[p]]).id)]
    /\ UNCHANGED <<notes_tbl, pc, req, backlinks, notes, resp, pre,
                   lastCall, uiVars>>

\* lines 178-189: the loop is over, answer with the inserted links
Respond(p) ==
    /\ pc[p] = "insert"
    /\ idx[p] > Len(backlinks[p])
    /\ resp' = [resp EXCEPT ![p] = SuccessResponse(insertedLinks[p])]
    /\ pc' = [pc EXCEPT ![p] = "done"]
    /\ UNCHANGED <<links, notes_tbl, req, backlinks, idx, notes,
                   insertedLinks, pre, targets, attempts, failed,
                   lastCall, uiVars>>

\* the response has been delivered; the slot is free for the next request
EndInvocation(p) ==
    /\ pc[p] = "done"
    /\ pc' = [pc EXCEPT ![p] = "idle"]
    /\ req' = [req EXCEPT ![p] = NoRequest]
    /\ backlinks' = [backlinks EXCEPT ![p] = <<>>]
    /\ idx' = [idx EXCEPT ![p] = 1]
    /\ notes' = [notes EXCEPT ![p] = <<>>]
    /\ insertedLinks' = [insertedLinks EXCEPT ![p] = <<>>]
    /\ resp' = [resp EXCEPT ![p] = NoResponse]
    /\ pre' = [pre EXCEPT ![p] = EmptyBag]
    /\ targets' = [targets EXCEPT ![p] = <<>>]
    /\ attempts' = [attempts EXCEPT ![p] = <<>>]
    /\ failed' = [failed EXCEPT ![p] = {}]

Return(p) ==
    /\ lastCall' =
         IF resp[p].status = 200 /\ failed[p] = {}
         THEN [note_id |-> req[p].body.note_id,
               content |-> req[p].body.content,
               notes |-> notes[p],
               out |-> OutBag(links, req[p].body.note_id)]
         ELSE NoCall
    /\ EndInvocation(p)
    /\ UNCHANGED <<links, notes_tbl, uiVars>>

\* the slot that serves requests one after the other
SeqProcs == {1}

\* requests served one at a time: no two calls overlap
Next ==
    \E p \in SeqProcs :
        \/ Handle(p)
        \/ Delete(p)
        \/ Fetch(p)
        \/ InsertLink(p)
        \/ Respond(p)
        \/ Return(p)

Spec == Init /\ [][Next]_vars

(***************************************************************************)
(* The synchronizer over a directory in which one label matches several    *)
(* entries.                                                                *)
(***************************************************************************)
TieTable ==
    { Note("n1", <<"a">>, "u1", <<"x">>),
      Note("n2", <<"a", "-">>, "u1", <<"x">>),
      Note("n3", <<"a", "-", "-">>, "u1", <<"x">>),
      Note("n4", <<"b", "-", "-">>, "u1", <<"x">>) }

TieContents ==
    { Ref(<<"a">>),
      Ref(<<"a", "-">>),
      Ref(<<"a">>) \o Ref(<<"a", "-">>),
      Ref(<<"b">>) }

TieRequests ==
    { Request("POST", TRUE, TRUE, Payload("object", n, c, "u1")) :
        n \in {"n1", "n3"}, c \in TieContents }

InitTie == InitState(EmptyBag, TieTable)

HandleTie(p) ==
    /\ \E r \in TieRequests : HandleRequest(p, r)
    /\ UNCHANGED uiVars

NextTie ==
    \E p \in SeqProcs :
        \/ HandleTie(p)
        \/ Delete(p)
        \/ Fetch(p)
        \/ InsertLink(p)
        \/ Respond(p)
        \/ Return(p)

SpecTie == InitTie /\ [][NextTie]_vars

(***************************************************************************)
(* The synchronizer over every short content, to exercise the extraction   *)
(* of lines 102-106.                                                       *)
(***************************************************************************)
MaxLen == 5

Alphabet == {"[", "]", "a", " "}

ExtractContents ==
    UNION {[1..n -> Alphabet] : n \in 0..MaxLen}
    \cup { Ref(<<"a">>) \o Ref(<<"a">>),
           Ref(<<" ", "a", " ">>) \o <<"a">> \o Ref(<<"a", " ", "a">>) }

ExtractTable == { Note("n1", <<"b">>, "u1", <<"x">>),
                 Note("n2", <<"a">>, "u1", <<"x">>) }

ExtractRequests ==
    { Request("POST", TRUE, TRUE, Payload("object", "n1", c, "u1")) :
        c \in ExtractContents }

InitExtract == InitState(EmptyBag, ExtractTable)

HandleExtract(p) ==
    /\ \E r \in ExtractRequests : HandleRequest(p, r)
    /\ UNCHANGED uiVars

\* the response has been delivered
Deliver(p) ==
    /\ EndInvocation(p)
    /\ UNCHANGED <<links, notes_tbl, lastCall, uiVars>>

NextExtract ==
    \E p \in SeqProcs :
        \/ HandleExtract(p)
        \/ Delete(p)
        \/ Fetch(p)
        \/ InsertLink(p)
        \/ Respond(p)
        \/ Deliver(p)

SpecExtract == InitExtract /\ [][NextExtract]_vars

(***************************************************************************)
(* The synchronizer called by either user for either user's note.          *)
(***************************************************************************)
OwnerContents == { Ref(<<"b">>), Ref(<<"d">>) \o Ref(<<"c">>) }

OwnerRequests ==
    { Request("POST", TRUE, TRUE, Payload("object", n, c, u)) :
        n \in {"n1", "n4"}, c \in OwnerContents, u \in {"u1", "u2"} }

HandleOwner(p) ==
    /\ \E r \in OwnerRequests : HandleRequest(p, r)
    /\ UNCHANGED uiVars

NextOwner ==
    \E p \in SeqProcs :
        \/ HandleOwner(p)
        \/ Delete(p)
        \/ Fetch(p)
        \/ InsertLink(p)
        \/ Respond(p)
        \/ Deliver(p)

SpecOwner == Init /\ [][NextOwner]_vars

(***************************************************************************)
(* Two invocations of the edge function that overlap: each request is      *)
(* served by its own invocation, and the steps of the two interleave at    *)
(* every await.                                                            *)
(***************************************************************************)
ConcContents == { Ref(<<"b">>), Ref(<<"c">>) }

ConcRequests ==
    { Request("POST", TRUE, TRUE, Payload("object", "n1", c, "u1")) :
        c \in ConcContents }

HandleConc(p) ==
    /\ \E r \in ConcRequests : HandleRequest(p, r)
    /\ UNCHANGED uiVars

NextConc ==
    \E p \in Procs :
        \/ HandleConc(p)
        \/ Delete(p)
        \/ Fetch(p)
        \/ InsertLink(p)
        \/ Respond(p)
        \/ Deliver(p)

SpecConc == Init /\ [][NextConc]_vars

(***************************************************************************)
(* The pages that read the tables: Dashboard, GraphView and Garden.        *)
(* Dashboard.fetchData also loads the profile and the recent notes, which  *)
(* play no part in the ranking and are left out.                           *)
(***************************************************************************)
\* Dashboard.tsx line 71: .slice(0, 5)
TopN == 5

\* the arrays that hold every element of S once, in any order
Orderings(S) ==
    LET k == Cardinality(S)
    IN  {s \in [1..k -> S] : \A i, j \in 1..k : s[i] = s[j] => i = j}

\* Dashboard.tsx lines 62-67: the number of rows per target_note_id
BacklinkCounts(l) ==
    LET ts == {e[2] : e \in DOMAIN l}
    IN  [t \in ts |->
            BagCardinality([e \in {x \in DOMAIN l : x[2] = t} |-> l[e]])]

\* Dashboard.tsx lines 69-70: the entries sorted by descending count; the
\* sort is stable and the entries come in the order of the rows returned
\* by the store, so entries of equal count may come in any order
SortedEntries(counts) ==
    {s \in Orderings(DOMAIN counts) :
        \A i, j \in 1..Len(s) : i < j => counts[s[i]] >= counts[s[j]]}

\* Array.prototype.slice(0, n)
slice(s, n) == SubSeq(s, 1, IF Len(s) < n THEN Len(s) ELSE n)

\* Dashboard.tsx lines 79-82: .select("*").in("id", ids), rows in any order
SelectNotesIn(tbl, ids) == Orderings({n \in tbl : n.id \in ids})

\* Dashboard.tsx lines 84-89
TopLinkedNotes(topNotes, counts) ==
    [k \in 1..Len(topNotes) |->
        [note |-> topNotes[k],
         backlinks |-> IF topNotes[k].id \in DOMAIN counts
                       THEN counts[topNotes[k].id] ELSE 0]]

\* App.tsx lines 234-254: the router renders one page at a time
NoPageOpen ==
    /\ editor.pc = "idle"
    /\ dashboard.pc = "idle"
    /\ graph.pc = "idle"
    /\ garden.pc = "idle"

\* Dashboard.tsx lines 21-29: the page is opened by user u, or by nobody
DashboardOpen ==
    /\ NoPageOpen
    /\ \E u \in {"u1", "u2", UNDEFINED} :
        dashboard' =
            IF u = UNDEFINED
            THEN [NoDashboard EXCEPT !.pc = "done",
                    !.error = "Please log in to view your dashboard."]
            ELSE [NoDashboard EXCEPT !.pc = "links", !.userId = u]
    /\ UNCHANGED <<links, notes_tbl, pc, req, backlinks, idx, notes,
                   insertedLinks, resp, pre, targets, attempts, failed,
                   lastCall, editor, graph, garden>>

\* Dashboard.tsx lines 52-77: read the links, count and rank the targets
DashboardLinks ==
    /\ dashboard.pc = "links"
    /\ \E linkErr \in BOOLEAN :
        IF linkErr
        THEN dashboard' = [dashboard EXCEPT !.pc = "done",
                              !.error = "Failed to fetch links."]
        ELSE \E s \in SortedEntries(BacklinkCounts(links)) :
                dashboard' = [dashboard EXCEPT
                    !.backlinkCounts = BacklinkCounts(links),
                    !.sortedNoteIds = slice(s, TopN),
                    !.pc = IF Len(s) = 0 THEN "done" ELSE "notes"]
    /\ UNCHANGED <<links, notes_tbl, pc, req, backlinks, idx, notes,
                   insertedLinks, resp, pre, targets, attempts, failed,
                   lastCall, editor, graph, garden>>

\* Dashboard.tsx lines 79-90: read the ranked notes and show them
DashboardNotes ==
    /\ dashboard.pc = "notes"
    /\ \E notesErr \in BOOLEAN :
        IF notesErr
        THEN dashboard' = [dashboard EXCEPT !.pc = "done",
                              !.topNotesError = TRUE]
        ELSE \E topNotes \in SelectNotesIn(notes_tbl,
                    {dashboard.sortedNoteIds[k] :
                        k \in 1..Len(dashboard.sortedNoteIds)}) :
                dashboard' = [dashboard EXCEPT
                    !.topLinkedNotes =
                        TopLinkedNotes(topNotes, dashboard.backlinkCounts),
                    !.pc = "done"]
    /\ UNCHANGED <<links, notes_tbl, pc, req, backlinks, idx, notes,
                   insertedLinks, resp, pre, targets, attempts, failed,
                   lastCall, editor, graph, garden>>

\* the page is left
DashboardClose ==
    /\ dashboard.pc = "done"
    /\ dashboard' = NoDashboard
    /\ UNCHANGED <<links, notes_tbl, pc, req, backlinks, idx, notes,
                   insertedLinks, resp, pre, targets, attempts, failed,
                   lastCall, editor, graph, garden>>

\* GraphView.tsx lines 48-55: the page is opened by user u, or by nobody
GraphOpen ==
    /\ NoPageOpen
    /\ \E u \in {"u1", "u2", UNDEFINED} :
        graph' =
            IF u = UNDEFINED
            THEN [NoGraph EXCEPT !.pc = "done",
                    !.error = "Please log in to view the graph."]
            ELSE [NoGraph EXCEPT !.pc = "notes", !.userId = u]
    /\ UNCHANGED <<links, notes_tbl, pc, req, backlinks, idx, notes,
                   insertedLinks, resp, pre, targets, attempts, failed,
                   lastCall, editor, dashboard, garden>>

\* GraphView.tsx lines 57-69: read the notes of the user
GraphNotes ==
    /\ graph.pc = "notes"
    /\ \E notesError \in BOOLEAN :
        graph' =
            IF notesError
            THEN [graph EXCEPT !.pc = "done",
                    !.error = "Failed to fetch notes."]
            ELSE [graph EXCEPT !.pc = "links",
                    !.notes = {n.id : n \in
                        {m \in notes_tbl : m.user_id = graph.userId}}]
    /\ UNCHANGED <<links, notes_tbl, pc, req, backlinks, idx, notes,
                   insertedLinks, resp, pre, targets, attempts, failed,
                   lastCall, editor, dashboard, garden>>

\* GraphView.tsx lines 71-90: read the links and build the graph data
GraphLinks ==
    /\ graph.pc = "links"
    /\ \E linksError \in BOOLEAN :
        graph' =
            IF linksError
            THEN [graph EXCEPT !.pc = "done",
                    !.error = "Failed to fetch links."]
            ELSE [graph EXCEPT !.pc = "done",
                    !.nodes = graph.notes, !.links = links,
                    !.during = {p \in Procs :
                                  /\ pc[p] \in {"fetch", "insert"}
                                  /\ attempts[p] = <<>>}]
    /\ UNCHANGED <<links, notes_tbl, pc, req, backlinks, idx, notes,
                   insertedLinks, resp, pre, targets, attempts, failed,
                   lastCall, editor, dashboard, garden>>

\* the page is left
GraphClose ==
    /\ graph.pc = "done"
    /\ graph' = NoGraph
    /\ UNCHANGED <<links, notes_tbl, pc, req, backlinks, idx, notes,
                   insertedLinks, resp, pre, targets, attempts, failed,
                   lastCall, editor, dashboard, garden>>

\* a list that shows only the labels of a note that has stored edges
foundBacklinks_stored(noteData) ==
    SelectSeq(matchAll(noteData.content),
              LAMBDA l : \E e \in DOMAIN links : e[1] = noteData.id)

\* Auth.tsx lines 142-145: capture group 1 of every match, as it stands
foundBacklinks(noteData) == matchAll(noteData.content)

\* the slugs a visitor may ask for
GardenSlugs == {<<"a", "-">>, <<"b">>, <<"c">>, <<"d">>, <<"z">>}

\* Auth.tsx lines 109-124: the page /garden/:username/:slug is opened; the
\* username names user u, or nobody
GardenOpen ==
    /\ NoPageOpen
    /\ \E u \in {"u1", "u2", UNDEFINED} : \E sl \in GardenSlugs :
        garden' =
            IF u = UNDEFINED
            THEN [NoGarden EXCEPT !.pc = "shown", !.slug = sl,
                    !.error = "User not found"]
            ELSE [NoGarden EXCEPT !.pc = "note", !.user_id = u, !.slug = sl]
    /\ UNCHANGED <<links, notes_tbl, pc, req, backlinks, idx, notes,
                   insertedLinks, resp, pre, targets, attempts, failed,
                   lastCall, editor, dashboard, graph>>

\* Auth.tsx lines 126-146: read the public note and extract its labels
GardenNote ==
    /\ garden.pc = "note"
    /\ \E noteError \in BOOLEAN :
        LET rows == {n \in notes_tbl : /\ n.user_id = garden.user_id
                                       /\ n.slug = garden.slug
                                       /\ n.is_public}
        IN  garden' =
              IF noteError \/ Cardinality(rows) # 1
              THEN [garden EXCEPT !.pc = "shown",
                      !.error = "Note not found or not public"]
              ELSE LET noteData == CHOOSE n \in rows : TRUE
                   IN  [garden EXCEPT !.pc = "mdx", !.note = noteData.id,
                          !.backlinks = foundBacklinks(noteData)]
    /\ UNCHANGED <<links, notes_tbl, pc, req, backlinks, idx, notes,
                   insertedLinks, resp, pre, targets, attempts, failed,
                   lastCall, editor, dashboard, graph>>

\* Auth.tsx lines 148-160: evaluate the content as MDX
GardenRender ==
    /\ garden.pc = "mdx"
    /\ \E ok \in BOOLEAN :
        garden' =
            IF ok THEN [garden EXCEPT !.pc = "shown"]
            ELSE [garden EXCEPT !.pc = "shown",
                    !.error = "Failed to render note content"]
    /\ UNCHANGED <<links, notes_tbl, pc, req, backlinks, idx, notes,
                   insertedLinks, resp, pre, targets, attempts, failed,
                   lastCall, editor, dashboard, graph>>

\* the page is left
GardenClose ==
    /\ garden.pc = "shown"
    /\ garden' = NoGarden
    /\ UNCHANGED <<links, notes_tbl, pc, req, backlinks, idx, notes,
                   insertedLinks, resp, pre, targets, attempts, failed,
                   lastCall, editor, dashboard, graph>>

\* Auth.tsx lines 191-230: the list under "Linked Notes"
LinkedNotesShown ==
    IF garden.pc = "shown" /\ garden.error = "" THEN garden.backlinks
    ELSE <<>>

\* the notes of two users, with references in their contents
ViewNoteTable ==
    { Note("n1", <<"a", "-">>, "u1",
           Ref(<<" ", "b">>) \o <<" ">> \o Ref(<<"d">>)),
      Note("n2", <<"b">>, "u1", Ref(<<"a">>) \o Ref(<<"c">>)),
      [Note("n3", <<"c">>, "u1", <<"x">>) EXCEPT !.is_public = FALSE],
      Note("n4", <<"d">>, "u2", Ref(<<"e">>)),
      Note("n5", <<"e">>, "u2", <<"x">>) }

\* rows that synchronize calls may have left in the links table
ViewEdges ==
    { <<"n1", "n2">>, <<"n2", "n1">>, <<"n2", "n3">>, <<"n4", "n5">>,
      <<"n5", "n4">> }

ViewStores == UNION {[S -> 1..MaxRepeat] : S \in SUBSET ViewEdges}

InitViews == \E l \in ViewStores : InitState(l, ViewNoteTable)

NextViews ==
    \/ DashboardOpen
    \/ DashboardLinks
    \/ DashboardNotes
    \/ DashboardClose
    \/ GraphOpen
    \/ GraphNotes
    \/ GraphLinks
    \/ GraphClose
    \/ GardenOpen
    \/ GardenNote
    \/ GardenRender
    \/ GardenClose

SpecViews == InitViews /\ [][NextViews]_vars

(***************************************************************************)
(* The graph page opened while the edge function serves requests for a     *)
(* note, one at a time.                                                    *)
(***************************************************************************)
NextRead ==
    \/ \E p \in SeqProcs :
          \/ HandleConc(p)
          \/ Delete(p)
          \/ Fetch(p)
          \/ InsertLink(p)
          \/ Respond(p)
          \/ Deliver(p)
    \/ GraphOpen
    \/ GraphNotes
    \/ GraphLinks
    \/ GraphClose

SpecRead == Init /\ [][NextRead]_vars

(***************************************************************************)
(* NoteEditor (second file of src/unnamed/part_001): handleSave writes the *)
(* note and then calls the edge function; handleDelete removes the links   *)
(* of the note and then the note.                                          *)
(***************************************************************************)
\* the state of one invocation of the edge function
syncVars == <<pc, req, backlinks, idx, notes, insertedLinks, resp, pre,
              targets, attempts, failed, lastCall>>

toLowerCase(ch) ==
    CASE ch = "A" -> "a" [] ch = "B" -> "b" [] ch = "E" -> "e"
      [] OTHER -> ch

\* part_001 line 317: title.toLowerCase().replace(/\s+/g, "-")
RECURSIVE Slugify(_)
Slugify(title) ==
    IF title = <<>> THEN <<>>
    ELSE IF Head(title) = " "
         THEN <<"-">> \o Slugify(trimStart(title))
         ELSE <<toLowerCase(Head(title))>> \o Slugify(Tail(title))

\* a delete that removes the rows of the source only
DeleteNoteLinks_source(l, noteId) ==
    LET keep == {e \in DOMAIN l : e[1] # noteId}
    IN  [e \in keep |-> l[e]]

\* part_001 lines 443-446: .delete().or(source_note_id.eq, target_note_id.eq)
DeleteNoteLinks(l, noteId) ==
    LET keep == {e \in DOMAIN l : e[1] # noteId /\ e[2] # noteId}
    IN  [e \in keep |-> l[e]]

\* what the user of the editor may type and open
EditorUsers == {"u1", "u2"}
SaveUsers == {"u1", UNDEFINED}
EditorNotes == {"n1", "n2"}
Titles == { <<"A", " ">> }
EditorContents == { <<>>, Ref(<<"b">>), Ref(<<"a">>) \o Ref(<<"c">>) }

\* the id given to a note created by the editor
NewNoteId == "n7"

\* response.ok
ResponseOk(status) == status \in 200..299

\* part_001 lines 315-324: Save is pressed by user u, or by nobody
SaveStart ==
    /\ NoPageOpen
    /\ \E u \in SaveUsers :
       \E id \in EditorNotes \cup {UNDEFINED} :
       \E t \in Titles : \E c \in EditorContents :
        editor' =
            IF u = UNDEFINED
            THEN [NoEditor EXCEPT !.pc = "done", !.op = "save",
                    !.toasts = {"You must be logged in to save notes."}]
            ELSE [NoEditor EXCEPT !.pc = "exists", !.op = "save",
                    !.noteId = id, !.userId = u, !.slug = Slugify(t),
                    !.content = c]
    /\ UNCHANGED <<links, notes_tbl, syncVars, dashboard, graph, garden>>

\* part_001 lines 326-336: is there another note with this slug
SaveExists ==
    /\ editor.pc = "exists"
    /\ \E selectError \in BOOLEAN :
        LET rows == {n \in notes_tbl :
                        n.slug = editor.slug /\ n.id # editor.noteId}
        IN  editor' =
              IF ~selectError /\ Cardinality(rows) = 1
              THEN [editor EXCEPT !.pc = "done",
                      !.toasts = @ \cup
                          {"A note with this title already exists."}]
              ELSE [editor EXCEPT !.pc = "write"]
    /\ UNCHANGED <<links, notes_tbl, syncVars, dashboard, graph, garden>>

\* part_001 lines 338-372: update the note, or insert a new one
SaveWrite ==
    /\ editor.pc = "write"
    /\ \E writeError \in BOOLEAN :
        LET old == {n \in notes_tbl : /\ n.id = editor.noteId
                                      /\ n.user_id = editor.userId}
            id == IF editor.noteId # UNDEFINED THEN editor.noteId
                  ELSE NewNoteId
            row == Note(id, editor.slug, editor.userId, editor.content)
            ok == /\ ~writeError
                  /\ IF editor.noteId # UNDEFINED THEN old # {}
                     ELSE NewNoteId \notin {n.id : n \in notes_tbl}
        IN  IF ok
            THEN /\ notes_tbl' = (notes_tbl \ old) \cup {row}
                 /\ editor' = [editor EXCEPT !.pc = "call", !.dataId = id,
                        !.toasts = @ \cup
                            {IF editor.noteId # UNDEFINED
                             THEN "Note updated!" ELSE "Note saved!"}]
            ELSE /\ notes_tbl' = notes_tbl
                 /\ editor' = [editor EXCEPT !.pc = "done",
                        !.toasts = @ \cup {"error.message"}]
    /\ UNCHANGED <<links, syncVars, dashboard, graph, garden>>

\* part_001 lines 374-384 and 389-391: the request is sent to the edge
\* function, or the fetch fails
SaveCall ==
    /\ editor.pc = "call"
    /\ \/ /\ editor' = [editor EXCEPT !.pc = "done",
                  !.toasts = @ \cup {"Error calling backlink parser."}]
          /\ UNCHANGED <<links, notes_tbl, syncVars>>
       \/ /\ \E p \in SeqProcs :
                HandleRequest(p, Request("POST", TRUE, TRUE,
                    Payload("object", editor.dataId, editor.content,
                            editor.userId)))
          /\ editor' = [editor EXCEPT !.pc = "await"]
    /\ UNCHANGED <<dashboard, graph, garden>>

\* part_001 lines 385-393: the response of the edge function is read, which
\* ends the invocation
SaveResponse ==
    /\ editor.pc = "await"
    /\ \E p \in SeqProcs :
        /\ EndInvocation(p)
        /\ editor' = [editor EXCEPT !.pc = "done",
              !.syncStatus = resp[p].status,
              !.syncFailed = failed[p],
              !.toasts = IF ResponseOk(resp[p].status) THEN @
                         ELSE @ \cup {"Backlink parsing failed."}]
    /\ UNCHANGED <<links, notes_tbl, lastCall, dashboard, graph, garden>>

\* part_001 lines 418-423: Delete is pressed and confirmed by user u
DeleteStart ==
    /\ NoPageOpen
    /\ \E u \in EditorUsers : \E id \in EditorNotes \cup {NewNoteId} :
        editor' = [NoEditor EXCEPT !.pc = "fetchNote", !.op = "delete",
                     !.noteId = id, !.userId = u]
    /\ UNCHANGED <<links, notes_tbl, syncVars, dashboard, graph, garden>>

\* part_001 lines 425-441: read the owner of the note and compare
DeleteFetchNote ==
    /\ editor.pc = "fetchNote"
    /\ \E fetchError \in BOOLEAN :
        LET rows == {n \in notes_tbl : n.id = editor.noteId}
        IN  editor' =
              IF fetchError \/ rows = {}
              THEN [editor EXCEPT !.pc = "done",
                      !.toasts = @ \cup {"Failed to fetch note."}]
              ELSE IF \E n \in rows : n.user_id # editor.userId
              THEN [editor EXCEPT !.pc = "done",
                      !.toasts = @ \cup
                        {"You are not authorized to delete this note."}]
              ELSE [editor EXCEPT !.pc = "deleteLinks"]
    /\ UNCHANGED <<links, notes_tbl, syncVars, dashboard, graph, garden>>

\* a handler that reports the failed delete of the links and goes on
AfterLinkDelete_noreturn(e, linkDeleteError) ==
    IF linkDeleteError
    THEN [e EXCEPT !.pc = "deleteNote",
            !.toasts = @ \cup {"Failed to delete links."}]
    ELSE [e EXCEPT !.pc = "deleteNote"]

\* part_001 lines 448-452: a failed delete of the links ends the handler
AfterLinkDelete(e, linkDeleteError) ==
    IF linkDeleteError
    THEN [e EXCEPT !.pc = "done",
            !.toasts = @ \cup {"Failed to delete links."}]
    ELSE [e EXCEPT !.pc = "deleteNote"]

\* part_001 lines 443-452: delete the links from and to the note
DeleteLinksStep ==
    /\ editor.pc = "deleteLinks"
    /\ \E linkDeleteError \in BOOLEAN :
        /\ links' = IF linkDeleteError THEN links
                    ELSE DeleteNoteLinks(links, editor.noteId)
        /\ editor' = [AfterLinkDelete(editor, linkDeleteError) EXCEPT
              !.removed = IF linkDeleteError THEN @
                          ELSE [e \in {x \in DOMAIN links :
                                          x[1] = editor.noteId
                                          \/ x[2] = editor.noteId}
                                |-> links[e]]]
    /\ UNCHANGED <<notes_tbl, syncVars, dashboard, graph, garden>>

\* part_001 lines 454-466: delete the note itself
DeleteNoteStep ==
    /\ editor.pc = "deleteNote"
    /\ \E noteDeleteError \in BOOLEAN :
        IF noteDeleteError
        THEN /\ notes_tbl' = notes_tbl
             /\ editor' = [editor EXCEPT !.pc = "done",
                    !.toasts = @ \cup {"Delete failed."}]
        ELSE /\ notes_tbl' = {n \in notes_tbl : n.id # editor.noteId}
             /\ editor' = [editor EXCEPT !.pc = "done",
                    !.toasts = @ \cup {"Note deleted."}]
    /\ UNCHANGED <<links, syncVars, dashboard, graph, garden>>

\* part_001 lines 393 and 466: the editor is ready for the next save or
\* delete
EditorClose ==
    /\ editor.pc = "done"
    /\ editor' = NoEditor
    /\ UNCHANGED <<links, notes_tbl, syncVars, dashboard, graph, garden>>

\* one editor, which is the only client of the edge function
NextEditor ==
    \/ SaveStart
    \/ SaveExists
    \/ SaveWrite
    \/ SaveCall
    \/ SaveResponse
    \/ DeleteStart
    \/ DeleteFetchNote
    \/ DeleteLinksStep
    \/ DeleteNoteStep
    \/ EditorClose
    \/ \E p \in SeqProcs :
          \/ Delete(p)
          \/ Fetch(p)
          \/ InsertLink(p)
          \/ Respond(p)

SpecEditor == Init /\ [][NextEditor]_vars

(***************************************************************************)
(* A note is deleted in the editor while the edge function serves a        *)
(* request of another client.                                              *)
(***************************************************************************)
NextRace ==
    \/ \E p \in SeqProcs :
          \/ HandleConc(p)
          \/ Delete(p)
          \/ Fetch(p)
          \/ InsertLink(p)
          \/ Respond(p)
          \/ Deliver(p)
    \/ DeleteStart
    \/ DeleteFetchNote
    \/ DeleteLinksStep
    \/ DeleteNoteStep
    \/ EditorClose

SpecRace == Init /\ [][NextRace]_vars

(***************************************************************************)
(* Properties of the synchronizer, requests served one at a time.          *)
(***************************************************************************)
NoteId(p) == req[p].body.note_id

\* the call of slot p has completed with status 200 and no store failure
Succeeded(p) ==
    pc[p] = "done" /\ resp[p].status = 200 /\ failed[p] = {}

\* the ids obtained by resolving every label of a content against a
\* directory, without the unresolved labels and without note_id
ResolvedTargets(content, ns, note_id) ==
    LET ls == ExtractBacklinks(content)
    IN  {find(ns, ls[k]).id : k \in 1..Len(ls)} \ {UNDEFINED, note_id}

\* C1: after a synchronize call that completes with no store failure, the
\* targets of the edges stored for note_id are exactly the ids the labels
\* of the content resolve to in the directory, note_id and the unresolved
\* labels left out.
C1_SyncStoresResolvedTargets ==
    \A p \in Procs :
        Succeeded(p) =>
            OutTargets(links, NoteId(p)) =
                ResolvedTargets(req[p].body.content, notes[p], NoteId(p))

\* a completed call that replaced earlier edges of the note by others and
\* whose content held a label that matches no note
C1_Witness ==
    \E p \in Procs :
        /\ Succeeded(p)
        /\ OutTargets(links, NoteId(p)) # {}
        /\ OutTargets(pre[p], NoteId(p)) # {}
        /\ OutTargets(pre[p], NoteId(p)) \cap OutTargets(links, NoteId(p)) = {}
        /\ \E k \in 1..Len(targets[p]) : targets[p][k] = UNDEFINED

\* C2: set semantics: after a synchronize call that completes with no
\* store failure, every edge of note_id is stored exactly once, also when
\* several labels of the content resolve to the same target.
C2_SetSemantics ==
    \A p \in Procs :
        Succeeded(p) =>
            \A e \in DOMAIN OutBag(links, NoteId(p)) : links[e] = 1

\* C3: when the fetch of the directory fails, the call ends with an error
\* and the links table is what it was when the request arrived.
C3_FetchFailureNoMutation ==
    \A p \in Procs :
        "fetch" \in failed[p] =>
            /\ pc[p] = "done"
            /\ resp[p].status = 500
            /\ links = pre[p]

\* C4: a second synchronize of the same note, with the same content and
\* the same directory, right after a first one leaves the rows of the
\* note as the first call left them: the same edges, none stored once more.
C4_SyncIdempotent ==
    \A p \in Procs :
        ( /\ Succeeded(p)
          /\ lastCall # NoCall
          /\ lastCall.note_id = NoteId(p)
          /\ lastCall.content = req[p].body.content
          /\ lastCall.notes = notes[p] )
        => OutBag(links, NoteId(p)) = lastCall.out

\* a second identical call has completed and the note has edges
C4_Witness ==
    \E p \in Procs :
        /\ Succeeded(p)
        /\ lastCall # NoCall
        /\ lastCall.note_id = NoteId(p)
        /\ lastCall.content = req[p].body.content
        /\ lastCall.notes = notes[p]
        /\ pre[p] = links
        /\ OutBag(links, NoteId(p)) # EmptyBag

\* C5: no row of the links table has its source equal to its target.
C5_NoSelfEdge == \A e \in DOMAIN links : e[1] # e[2]

\* a completed call one of whose labels resolved to the note itself
C5_Witness ==
    \E p \in Procs :
        /\ Succeeded(p)
        /\ \E k \in 1..Len(targets[p]) : targets[p][k] = NoteId(p)
        /\ OutTargets(links, NoteId(p)) # {}

RECURSIVE StripHyphens(_)
StripHyphens(t) ==
    IF t # <<>> /\ t[Len(t)] = "-"
    THEN StripHyphens(SubSeq(t, 1, Len(t) - 1)) ELSE t

\* entry i is the only entry of the directory whose slug is the label up
\* to trailing hyphens
OnlyCandidate(ns, i, label) ==
    \A j \in 1..Len(ns) :
        j # i => StripHyphens(ns[j].slug) # StripHyphens(label)

\* C6: trailing-hyphen tolerance: a label resolves to the directory entry
\* whose slug is the label followed by one hyphen, and a label that ends
\* in a hyphen resolves to the entry whose slug is the label without it
\* (the entry being the only candidate of the directory).
C6_TrailingHyphenTolerance ==
    \A p \in Procs :
        \A k \in 1..Len(targets[p]) :
            \A i \in 1..Len(notes[p]) :
                LET label == backlinks[p][k]
                    entry == notes[p][i]
                IN  ( /\ \/ entry.slug = label \o <<"-">>
                         \/ label = entry.slug \o <<"-">>
                      /\ OnlyCandidate(notes[p], i, label) )
                    => targets[p][k] = entry.id

\* one call resolved a label through each of the two hyphen rules
C6_Witness ==
    \E p \in Procs :
        /\ \E k \in 1..Len(targets[p]) : \E i \in 1..Len(notes[p]) :
              /\ notes[p][i].slug = backlinks[p][k] \o <<"-">>
              /\ targets[p][k] = notes[p][i].id
        /\ \E k \in 1..Len(targets[p]) : \E i \in 1..Len(notes[p]) :
              /\ backlinks[p][k] = notes[p][i].slug \o <<"-">>
              /\ targets[p][k] = notes[p][i].id

\* C7: when the delete of the existing edges fails, the call ends at once
\* with the error of the delete stage, no insert is issued and the links
\* table is what it was when the request arrived.
C7_DeleteFailureAborts ==
    \A p \in Procs :
        "delete" \in failed[p] =>
            /\ pc[p] = "done"
            /\ resp[p] = Response(500, "Failed to clear existing links", <<>>)
            /\ attempts[p] = <<>>
            /\ links = pre[p]

\* a call whose delete failed, for a note that has edges and whose
\* content resolves to a target
C7_Witness ==
    \E p \in Procs :
        /\ "delete" \in failed[p]
        /\ OutBag(links, NoteId(p)) # EmptyBag
        /\ \E ns \in SelectNotes(notes_tbl, req[p].body.user_id) :
              ResolvedTargets(req[p].body.content, ns, NoteId(p)) # {}

\* the rows of the attempts that succeeded, in order
SucceededRows(as) ==
    LET oks == SelectSeq(as, LAMBDA a : a.ok)
    IN  [k \in 1..Len(oks) |-> oks[k].row]

\* C8: best-effort insert: a call that reaches its end has issued one
\* insert for every label with a valid target, whether earlier inserts
\* failed or not, and the list it returns holds exactly the rows whose
\* insert succeeded.
C8_BestEffortInsert ==
    \A p \in Procs :
        (pc[p] = "done" /\ resp[p].status = 200) =>
            /\ [k \in 1..Len(attempts[p]) |-> attempts[p][k].row.slug] =
                 SelectSeq(backlinks[p],
                           LAMBDA l : IsValidTarget(find(notes[p], l),
                                                    NoteId(p)))
            /\ resp[p].insertedLinks = SucceededRows(attempts[p])

\* a completed call in which an insert failed and a later one succeeded
C8_Witness ==
    \E p \in Procs :
        /\ pc[p] = "done"
        /\ resp[p].status = 200
        /\ \E i, j \in 1..Len(attempts[p]) :
              /\ i < j
              /\ ~attempts[p][i].ok
              /\ attempts[p][j].ok
              /\ attempts[p][i].row.target_note_id #
                     attempts[p][j].row.target_note_id

\* C9: a call in which a store operation failed (delete, fetch or an
\* insert) answers with a failure that names the stage, never with a
\* success status.
C9_StoreErrorsReported ==
    \A p \in Procs :
        (pc[p] = "done" /\ failed[p] # {}) =>
            /\ resp[p].status # 200
            /\ resp[p].error # ""

\* a required field of the JSON object of a POST request is absent
FieldMissing(r) ==
    /\ r.method = "POST" /\ r.hasBody /\ r.json
    /\ r.body.kind = "object"
    /\ \/ r.body.note_id = UNDEFINED
       \/ r.body.content = UNDEFINED_TEXT
       \/ r.body.user_id = UNDEFINED

\* C10: a request with one of the three required fields missing is
\* rejected with status 400 and reaches neither the delete nor an insert:
\* the links table is what it was when the request arrived.
C10_MissingFieldRejected ==
    \A p \in Procs :
        (pc[p] # "idle" /\ FieldMissing(req[p])) =>
            /\ pc[p] = "done"
            /\ resp[p].status = 400
            /\ failed[p] = {}
            /\ attempts[p] = <<>>
            /\ links = pre[p]

\* a rejected request that names a note with stored edges and lacks only
\* its content
C10_Witness ==
    \E p \in Procs :
        /\ pc[p] = "done"
        /\ FieldMissing(req[p])
        /\ req[p].body.content = UNDEFINED_TEXT
        /\ req[p].body.note_id # UNDEFINED
        /\ req[p].body.user_id # UNDEFINED
        /\ OutBag(links, NoteId(p)) # EmptyBag

\* a POST request whose body is not a JSON object, or is not announced as
\* JSON
NotJsonObject(r) ==
    /\ r.method = "POST"
    /\ \/ ~r.hasBody
       \/ ~r.json
       \/ r.body.kind # "object"

ClientError(status) == status \in 400..499

\* C11: a request whose body is not a JSON object (empty, not JSON, null,
\* a number, an array) or whose content type is not JSON is answered with
\* a 4xx status, never a 5xx one, and leaves the links table as it was.
C11_NonObjectBodyRejected ==
    \A p \in Procs :
        (pc[p] # "idle" /\ NotJsonObject(req[p])) =>
            /\ pc[p] = "done"
            /\ ClientError(resp[p].status)
            /\ links = pre[p]

\* the ids of the notes that exist
NoteIds(tbl) == {n.id : n \in tbl}

\* C12: a call whose note_id names no existing note ends with an input
\* error (4xx) and has neither deleted nor inserted a row.
C12_UnknownNoteRejected ==
    \A p \in Procs :
        ( /\ pc[p] = "done"
          /\ req[p].method = "POST"
          /\ ~Falsy(NoteId(p))
          /\ NoteId(p) \notin NoteIds(notes_tbl) )
        => /\ ClientError(resp[p].status)
           /\ failed[p] = {}
           /\ attempts[p] = <<>>
           /\ links = pre[p]

\* C20: the rules are tried in priority order: a label that is exactly
\* the slug of an entry of the directory resolves to that entry, wherever
\* the entries that match through a hyphen rule stand in the directory.
C20_ExactMatchWins ==
    \A p \in Procs :
        \A k \in 1..Len(targets[p]) :
            \A i \in 1..Len(notes[p]) :
                notes[p][i].slug = backlinks[p][k]
                    => targets[p][k] = notes[p][i].id

\* a POST request with a JSON object that names a note and a user and
\* carries a content, which may be empty
HasAllFields(r) ==
    /\ r.method = "POST" /\ r.hasBody /\ r.json
    /\ r.body.kind = "object"
    /\ ~Falsy(r.body.note_id)
    /\ ~Falsy(r.body.user_id)
    /\ r.body.content # UNDEFINED_TEXT

\* C26: a synchronize call whose content is empty or holds no reference
\* label, and in which no store operation fails, succeeds and leaves the
\* note with no outgoing edge.
C26_EmptyContentClearsEdges ==
    \A p \in Procs :
        ( /\ pc[p] = "done"
          /\ HasAllFields(req[p])
          /\ ExtractBacklinks(req[p].body.content) = <<>>
          /\ failed[p] = {} )
        => /\ resp[p].status = 200
           /\ OutBag(links, NoteId(p)) = EmptyBag

\* the owner of a note
OwnerOf(tbl, id) == {n.user_id : n \in {m \in tbl : m.id = id}}

\* C27: every stored edge links two notes of the same owner, and a call
\* whose note_id is not a note of the user_id it names is refused: it
\* deletes nothing and inserts nothing.
C27_OwnerScoped ==
    /\ \A e \in DOMAIN links :
          OwnerOf(notes_tbl, e[1]) = OwnerOf(notes_tbl, e[2])
    /\ \A p \in Procs :
          ( /\ pc[p] = "done"
            /\ HasAllFields(req[p])
            /\ req[p].body.user_id \notin OwnerOf(notes_tbl, NoteId(p)) )
          => /\ resp[p].status # 200
             /\ attempts[p] = <<>>
             /\ links = pre[p]

\* the rows of the links table whose source is not note_id
OtherRows(l, note_id) ==
    LET others == {e \in DOMAIN l : e[1] # note_id}
    IN  [e \in others |-> l[e]]

\* C28: a synchronize call for a note changes only the rows whose source
\* is that note: at every step of the call, completed or not, failed or
\* not, the rows of every other source are what they were when the request
\* arrived.
C28_OnlyOwnRowsChange ==
    \A p \in Procs :
        pc[p] # "idle" =>
            OtherRows(links, NoteId(p)) = OtherRows(pre[p], NoteId(p))

\* a call has replaced the edges of its note while another note has edges
C28_Witness ==
    \E p \in Procs :
        /\ Succeeded(p)
        /\ OtherRows(links, NoteId(p)) # EmptyBag
        /\ OutBag(pre[p], NoteId(p)) # EmptyBag
        /\ OutBag(links, NoteId(p)) # EmptyBag
        /\ OutBag(links, NoteId(p)) # OutBag(pre[p], NoteId(p))

\* no entry of the directory matches the label through rule 1 (the slug
\* is the label) or rule 2 (the slug is the label and one hyphen)
NoEarlierRule(ns, label) ==
    \A j \in 1..Len(ns) :
        ns[j].slug # label /\ ns[j].slug # label \o <<"-">>

\* C21: rule 3: when no earlier rule matches, a label resolves to an entry
\* of the directory whose slug, with all of its trailing hyphens stripped,
\* is the label.
C21_StripAllTrailingHyphens ==
    \A p \in Procs :
        \A k \in 1..Len(targets[p]) :
            LET label == backlinks[p][k]
                cands == {i \in 1..Len(notes[p]) :
                            StripHyphens(notes[p][i].slug) = label}
            IN  (cands # {} /\ NoEarlierRule(notes[p], label))
                    => \E i \in cands : targets[p][k] = notes[p][i].id

\* the text holds the two characters ch ch somewhere
HasPair(t, ch) == \E i \in 1..(Len(t) - 1) : t[i] = ch /\ t[i + 1] = ch

\* the labels of the text between "[[" and "]]", as the text shows them:
\* a start i of "[[", at least one character, and the first "]" after it
\* at j, followed by "]"
BracketPairs(t) ==
    {<<i, j>> \in (1..Len(t)) \X (1..Len(t)) :
        /\ i + 3 <= j /\ j < Len(t)
        /\ t[i] = "[" /\ t[i + 1] = "["
        /\ t[j] = "]" /\ t[j + 1] = "]"
        /\ \A m \in (i + 2)..(j - 1) : t[m] # "]"}

\* C25: the extractor returns the labels in order of appearance, with
\* duplicates, each trimmed of surrounding whitespace; content without a
\* well-formed bracket pair, and empty brackets, yield no label, so no
\* extracted label is the empty text.
C25_ExtractorLabels ==
    \A p \in Procs :
        LET content == req[p].body.content
            ls == backlinks[p]
        IN  pc[p] \in {"delete", "fetch", "insert"} =>
              /\ \A k \in 1..Len(ls) :
                    /\ ls[k] # <<>>
                    /\ ls[k] = trim(ls[k])
              /\ ~(HasPair(content, "[") /\ HasPair(content, "]"))
                    => ls = <<>>
              /\ Len(ls) <= Cardinality(BracketPairs(content))
              /\ BracketPairs(content) # {} => ls # <<>>

\* the parts of C25 other than the last: labels trimmed, in number no more
\* than the bracket pairs of the content, none without a pair
C25_ExtractorTrimmed ==
    \A p \in Procs :
        LET content == req[p].body.content
            ls == backlinks[p]
        IN  pc[p] \in {"delete", "fetch", "insert"} =>
              /\ \A k \in 1..Len(ls) : ls[k] = trim(ls[k])
              /\ ~(HasPair(content, "[") /\ HasPair(content, "]"))
                    => ls = <<>>
              /\ Len(ls) <= Cardinality(BracketPairs(content))
              /\ BracketPairs(content) # {} => ls # <<>>

(***************************************************************************)
(* Properties of two overlapping synchronize calls for the same note.      *)
(***************************************************************************)
\* the targets the content of the call of slot p resolves to
Resolved(p) ==
    ResolvedTargets(req[p].body.content, notes[p], NoteId(p))

\* the two calls have completed, both without store error
BothSucceeded == \A p \in Procs : Succeeded(p)

\* C22: two synchronize calls for the same note with different content
\* can leave the note with the targets of neither content: what is stored
\* once both have completed without store error holds the targets of one
\* call and, besides them, only targets of the other.
C22_MergedEdgeSet ==
    BothSucceeded =>
        /\ OutTargets(links, "n1") \subseteq Resolved(1) \cup Resolved(2)
        /\ \E p \in Procs : Resolved(p) \subseteq OutTargets(links, "n1")

\* both calls have completed without store error and the stored targets
\* are those of neither content
C22_Witness ==
    /\ BothSucceeded
    /\ req[1].body.content # req[2].body.content
    /\ \A p \in Procs : OutTargets(links, "n1") # Resolved(p)

\* C23: after two overlapping synchronize calls for the same note have
\* completed, no (source, target) pair of the note is stored more than
\* once.
C23_NoDuplicateAfterOverlap ==
    (\A p \in Procs : pc[p] = "done" /\ resp[p].status = 200) =>
        \A e \in DOMAIN OutBag(links, "n1") : links[e] = 1

(***************************************************************************)
(* Properties of one synchronize call at a time with a reader of the      *)
(* links.                                                                  *)
(***************************************************************************)
\* the call of slot p has deleted the rows of its note and has stored no
\* row yet
BetweenDeleteAndInsert(p) ==
    /\ pc[p] \in {"fetch", "insert"}
    /\ \A k \in 1..Len(attempts[p]) : ~attempts[p][k].ok

\* C24: between the delete step of a synchronize call and its first
\* insert the note has no outgoing edge in the store, whatever it had
\* before the call, and a reader of the links at that time sees none.
C24_TransientEmpty ==
    /\ \A p \in Procs :
          BetweenDeleteAndInsert(p) => OutBag(links, NoteId(p)) = EmptyBag
    /\ \A p \in graph.during :
          \A e \in DOMAIN graph.links : e[1] # "n1"

\* the note had outgoing edges before the call, its content resolves to a
\* target, and the graph page has read the links between the delete and the
\* first insert of the call
C24_Witness ==
    \E p \in graph.during :
        /\ graph.pc = "done"
        /\ graph.links = links
        /\ pc[p] = "insert"
        /\ attempts[p] = <<>>
        /\ OutBag(pre[p], NoteId(p)) # EmptyBag
        /\ Resolved(p) # {}
        /\ OutBag(links, NoteId(p)) = EmptyBag

(***************************************************************************)
(* Properties of a delete in the editor that overlaps a synchronize call.  *)
(***************************************************************************)
\* no synchronize call and no editor operation is in flight
Quiescent ==
    /\ \A p \in Procs : pc[p] = "idle"
    /\ editor.pc = "idle"

\* C29: referential integrity: whenever no operation is in flight, both
\* endpoints of every stored edge are existing notes, also after a note
\* was deleted while a synchronize call of a note that refers to it ran.
C29_ReferentialIntegrity ==
    Quiescent =>
        \A e \in DOMAIN links :
            e[1] \in NoteIds(notes_tbl) /\ e[2] \in NoteIds(notes_tbl)

(***************************************************************************)
(* Properties of the editor, which is the only client of the edge          *)
(* function.                                                               *)
(***************************************************************************)
Touches(e, noteId) == e[1] = noteId \/ e[2] = noteId

NoteDeleted ==
    /\ editor.op = "delete"
    /\ editor.pc = "done"
    /\ "Note deleted." \in editor.toasts

\* C13: once the editor's delete has removed a note, no stored edge has the
\* note as source or as target, and the edges of both directions are already
\* gone when the note row is about to be removed.
C13_DeleteRemovesEdges ==
    /\ (editor.op = "delete" /\ editor.pc = "deleteNote")
          => \A e \in DOMAIN links : ~Touches(e, editor.noteId)
    /\ NoteDeleted
          => /\ \A n \in notes_tbl : n.id # editor.noteId
             /\ \A e \in DOMAIN links : ~Touches(e, editor.noteId)

\* a note that had edges in both directions has been deleted
C13_Witness ==
    /\ NoteDeleted
    /\ \E e \in DOMAIN editor.removed : e[1] = editor.noteId
    /\ \E e \in DOMAIN editor.removed : e[2] = editor.noteId

SyncErrorToasts ==
    {"Backlink parsing failed.", "Error calling backlink parser."}

\* the note was written and the synchronize call that followed has failed:
\* it did not arrive, it was answered with an error, or an edge of the note
\* could not be stored
SaveWithFailedSync ==
    /\ editor.op = "save"
    /\ editor.pc = "done"
    /\ editor.toasts \cap {"Note updated!", "Note saved!"} # {}
    /\ \/ "Error calling backlink parser." \in editor.toasts
       \/ /\ editor.syncStatus # 0
          /\ ~ResponseOk(editor.syncStatus) \/ editor.syncFailed # {}

NotePersisted ==
    \E n \in notes_tbl :
        /\ n.id = editor.dataId
        /\ n.content = editor.content
        /\ n.slug = editor.slug

\* C14: when the note write succeeds and the synchronize call that follows
\* fails, the new content of the note stays persisted and the failure of the
\* synchronization is reported.
C14_SyncFailureReportedNoteKept ==
    SaveWithFailedSync
        => /\ NotePersisted
           /\ editor.toasts \cap SyncErrorToasts # {}

\* the part of C14 about the note: a failed synchronization leaves the
\* written note in place
C14_NoteKept == SaveWithFailedSync => NotePersisted

\* the delete of the links of the note has failed
LinkDeleteFailed ==
    /\ editor.op = "delete"
    /\ "Failed to delete links." \in editor.toasts

\* C30: when the removal of the edges of the note fails in the editor's
\* delete, the failure is reported and the note is not deleted; the note
\* row is removed only after the removal of the edges succeeded.
C30_LinkDeleteFailureKeepsNote ==
    /\ LinkDeleteFailed
          => /\ editor.pc = "done"
             /\ editor.noteId \in NoteIds(notes_tbl)
             /\ "Note deleted." \notin editor.toasts
    /\ (editor.op = "delete" /\ editor.pc = "deleteLinks")
          => editor.noteId \in NoteIds(notes_tbl)
    /\ NoteDeleted => ~LinkDeleteFailed

\* the delete of the links of a note that has edges has failed
C30_Witness ==
    /\ LinkDeleteFailed
    /\ editor.pc = "done"
    /\ \E e \in DOMAIN links : Touches(e, editor.noteId)

(***************************************************************************)
(* Properties of the pages.                                                *)
(***************************************************************************)
\* the number of rows of the links table whose target is id
Incoming(l, id) ==
    BagCardinality([e \in {x \in DOMAIN l : x[2] = id} |-> l[e]])

\* Dashboard.fetchData has completed and every read of the store succeeded
DashboardDone ==
    /\ dashboard.pc = "done"
    /\ dashboard.error = ""
    /\ ~dashboard.topNotesError

\* C15: the top linked notes are at most TopN notes, listed by descending
\* number of incoming edges, each shown with the number of rows of the
\* links table that target it.
C15_TopReferencedDescending ==
    DashboardDone =>
        LET top == dashboard.topLinkedNotes
        IN  /\ Len(top) <= TopN
            /\ \A k \in 1..Len(top) :
                  top[k].backlinks = Incoming(links, top[k].note.id)
            /\ \A i, j \in 1..Len(top) :
                  i < j => top[i].backlinks >= top[j].backlinks

\* the notes of user u that have incoming edges
OwnReferenced(u) ==
    {n \in notes_tbl : n.user_id = u /\ Incoming(links, n.id) > 0}

\* C16: the top linked notes are notes of the user of the dashboard only,
\* and they are the user's TopN most referenced notes (all of the user's
\* referenced notes when there are fewer), whatever the edges that target
\* notes of other users.
C16_TopReferencedOwnerScoped ==
    DashboardDone =>
        LET top == dashboard.topLinkedNotes
            shown == {top[k].note : k \in 1..Len(top)}
            own == OwnReferenced(dashboard.userId)
        IN  /\ \A n \in shown : n.user_id = dashboard.userId
            /\ Len(top) = (IF Cardinality(own) < TopN
                           THEN Cardinality(own) ELSE TopN)
            /\ \A n \in own \ shown : \A m \in shown :
                  Incoming(links, n.id) <= Incoming(links, m.id)

\* GraphView.fetchGraph has completed and every read of the store succeeded
GraphDone ==
    /\ graph.pc = "done"
    /\ graph.error = ""

\* C17: the nodes of the graph are exactly the notes of the user, and its
\* edges exactly the rows of the links table whose source is one of them.
C17_SnapshotOwnerScoped ==
    GraphDone =>
        /\ graph.nodes =
              {n.id : n \in {m \in notes_tbl : m.user_id = graph.userId}}
        /\ graph.links =
              [e \in {x \in DOMAIN links : x[1] \in graph.nodes} |-> links[e]]

\* the note shown by the Garden page
GardenNoteData == CHOOSE n \in notes_tbl : n.id = garden.note

\* the page shows a note
GardenShown ==
    /\ garden.pc = "shown"
    /\ garden.error = ""
    /\ garden.note # UNDEFINED

\* the labels of a content that the synchronizer would insert an edge for
SyncLabels(content, user_id, note_id) ==
    LET ns == CHOOSE d \in SelectNotes(notes_tbl, user_id) : TRUE
    IN  SelectSeq(ExtractBacklinks(content),
                  LAMBDA l : IsValidTarget(find(ns, l), note_id))

\* C18: the linked notes listed by the Garden page are the labels the
\* synchronizer extracts (trimmed) from the content and resolves in the
\* directory of the owner.
C18_RenderMatchesSynchronizer ==
    GardenShown =>
        LinkedNotesShown =
            SyncLabels(GardenNoteData.content, garden.user_id, garden.note)

\* the list of each note of ViewNoteTable that has labels
ListOfContent ==
    [id \in {"n1", "n2", "n4"} |->
        CASE id = "n1" -> << <<" ", "b">>, <<"d">> >>
          [] id = "n2" -> << <<"a">>, <<"c">> >>
          [] id = "n4" -> << <<"e">> >>]

\* C19: the linked notes listed for a note depend on the content of the
\* note only: whatever the rows of the links table, the same note with the
\* same content is shown with the same list.
C19_ListIndependentOfStore ==
    (GardenShown /\ garden.note \in DOMAIN ListOfContent) =>
        LinkedNotesShown = ListOfContent[garden.note]

\* a note is shown with its labels while the links table holds no edge of
\* that note
C19_Witness ==
    /\ GardenShown
    /\ garden.note \in DOMAIN ListOfContent
    /\ LinkedNotesShown # <<>>
    /\ OutTargets(links, garden.note) = {}
    /\ links # EmptyBag

====
